---- MODULE Spec2Model ----
(***************************************************************************)
(* Model of heredity.py: exact Bayesian inference over a family pedigree   *)
(* by exhaustive enumeration (main), the joint probability of one          *)
(* configuration (joint_probability, create_gene_matrix), the accumulator  *)
(* (update) and the normalizer (normalize).                                *)
(*                                                                         *)
(* Arithmetic is exact.  A probability is a rational [num, den] whose      *)
(* numerator and denominator are natural numbers of arbitrary size, held   *)
(* as little-endian sequences of limbs (TLC's integers are 32 bits wide).  *)
(* The tables of PROBS are held in hundredths and the entries of the gene  *)
(* matrix in 40000ths, the coarsest units in which every term of           *)
(* create_gene_matrix is a whole number.                                   *)
(***************************************************************************)
EXTENDS Integers, Sequences, FiniteSets, Bags, TLC

VARIABLES
    people,         \* the person table returned by load_data
    order,          \* iteration order of the set `names` (a Python set)
    probabilities,  \* the distribution table of main
    have_trait,     \* loop variable of main / argument of the call
    one_gene,       \* loop variable of main / argument of the call
    two_genes,      \* loop variable of main / argument of the call
    it_trait,       \* position of the iterator over powerset(names)
    it_one,         \* position of the iterator over powerset(names)
    it_two,         \* position of the iterator over powerset(names - one_gene)
    p,              \* the joint probability last returned / passed to update
    gene_matrix,    \* the table built by create_gene_matrix, <<>> before
    npfloat,        \* TRUE when the accumulated numbers are numpy.float64
    pc,             \* position in main, or the outcome of the run
    calls           \* history: the bag of update calls made so far

vars == <<people, order, probabilities, have_trait, one_gene, two_genes,
          it_trait, it_one, it_two, p, gene_matrix, npfloat, pc, calls>>

---------------------------------------------------------------------------
(* Bounds *)

\* largest pedigree of the full pipeline (main) and of normalize
MaxPeople == 2
\* largest pedigree handed to joint_probability on its own
MaxJointPeople == 3
\* largest table handed to update on its own
MaxUpdatePeople == 1
\* number of update calls applied to one table
MaxCalls == 2
\* probabilities (whole units) passed to update on its own
PVals == {1, 2}
\* bucket weights (whole units) of the tables handed to normalize on its own
WVals == {0, 1}

---------------------------------------------------------------------------
(* Exact natural numbers of arbitrary size *)

Base == 100 * 100

Zero == <<>>

RECURSIVE BigMulC(_, _, _)
BigMulC(a, k, carry) ==
    IF a = <<>>
    THEN IF carry = 0 THEN <<>>
         ELSE <<carry % Base>> \o BigMulC(<<>>, k, carry \div Base)
    ELSE LET t == Head(a) * k + carry
         IN  <<t % Base>> \o BigMulC(Tail(a), k, t \div Base)

\* a * k for a natural number k below 50000
BigMul(a, k) == IF k = 0 THEN Zero ELSE BigMulC(a, k, 0)

\* the natural number n
Big(n) == BigMulC(<<>>, 1, n)

RECURSIVE BigAddC(_, _, _)
BigAddC(a, b, carry) ==
    IF a = <<>> /\ b = <<>>
    THEN IF carry = 0 THEN <<>> ELSE <<carry>>
    ELSE LET x == IF a = <<>> THEN 0 ELSE Head(a)
             y == IF b = <<>> THEN 0 ELSE Head(b)
             t == x + y + carry
         IN  <<t % Base>> \o BigAddC(IF a = <<>> THEN <<>> ELSE Tail(a),
                                     IF b = <<>> THEN <<>> ELSE Tail(b),
                                     t \div Base)

BigAdd(a, b) == BigAddC(a, b, 0)

(* Rationals.  Every number added into one table has the same denominator  *)
(* (the product of the units of the factors of joint_probability, which    *)
(* depends on the person table only), so a sum keeps that denominator.     *)
Rat(n, d) == [num |-> n, den |-> d]

\* x += y
RatAdd(x, y) == Rat(BigAdd(x.num, y.num), x.den)

\* x *= 1 / y, for x and y over the same denominator: (a/d) / (b/d) = a/b.
\* A zero y gives the denominator zero: inf or nan.
RatDiv(x, y) == Rat(x.num, y.num)

RatIsOne(x) == x.den # Zero /\ x.num = x.den

---------------------------------------------------------------------------
(* PROBS *)

None == 0

\* PROBS, in hundredths
PROBS ==
    [gene     |-> (2 :> 1 @@ 1 :> 3 @@ 0 :> 96),
     trait    |-> (2 :> (TRUE :> 65 @@ FALSE :> 35) @@
                   1 :> (TRUE :> 56 @@ FALSE :> 44) @@
                   0 :> (TRUE :> 1 @@ FALSE :> 99)),
     mutation |-> 1]

\* the unit of PROBS: 1.0 in hundredths
Hundred == 10 * 10

\* the unit of the gene matrix: 1.0 in 40000ths (0.25 * 0.01 * 0.01 is 1)
MatrixUnit == 4 * Hundred * Hundred

\* create_gene_matrix(): gene_matrix[child][parent1][parent2], in 40000ths.
\* X * Y of two hundredths is 4 * X * Y, 0.5 * X * Y is 2 * X * Y and
\* 0.25 * X * Y is X * Y.
create_gene_matrix ==
    LET P_M  == PROBS.mutation
        P_NM == Hundred - PROBS.mutation
        g000 == 4 * P_NM * P_NM
        g010 == 2 * P_M * P_NM + 2 * P_NM * P_NM
        g020 == 4 * P_NM * P_M
        g001 == g010
        g011 == P_M * P_M + 2 * P_M * P_NM + P_NM * P_NM
        g021 == 2 * P_NM * P_M
        g002 == g020
        g012 == g021
        g022 == 4 * P_M * P_M
        g100 == 2 * 4 * P_M * P_NM
        g110 == 2 * P_NM * P_NM + 4 * P_M * P_NM + 2 * P_M * P_M
        g120 == 4 * P_M * P_M + 4 * P_NM * P_NM
        g101 == g110
        g111 == g110
        g121 == g110
        g102 == g120
        g112 == g121
        g122 == g100
        g200 == g022
        g210 == 2 * P_M * P_M + 2 * P_M * P_NM
        g220 == g020
        g201 == g210
        g211 == P_M * P_M + 2 * P_M * P_NM + P_NM * P_NM
        g221 == g010
        g202 == g220
        g212 == g221
        g222 == g000
        m == << << <<g000, g001, g002>>, <<g010, g011, g012>>, <<g020, g021, g022>> >>,
                << <<g100, g101, g102>>, <<g110, g111, g112>>, <<g120, g121, g122>> >>,
                << <<g200, g201, g202>>, <<g210, g211, g212>>, <<g220, g221, g222>> >> >>
    IN  [x \in 0..2 |-> [y \in 0..2 |-> [z \in 0..2 |-> m[x + 1][y + 1][z + 1]]]]

---------------------------------------------------------------------------
(* Person tables *)

TraitVals == {"None", "True", "False"}

\* True / False as load_data stores a known trait
Str(b) == IF b THEN "True" ELSE "False"

(* The person tables load_data can return for n rows that are valid: every *)
(* parent is a row, both parents or neither, no cycles.  People are named  *)
(* 1..n in an order in which parents come before their children.           *)
Tables(n, traits) ==
    { t \in [1..n -> [name : 1..n, mother : 0..n, father : 0..n, trait : traits]] :
        \A x \in 1..n :
            /\ t[x].name = x
            /\ t[x].mother < x
            /\ t[x].father < x
            /\ (t[x].mother = None) <=> (t[x].father = None) }

\* n people without parents and without a known trait
Founders(n) ==
    [x \in 1..n |-> [name |-> x, mother |-> None, father |-> None, trait |-> "None"]]

Perms(S) ==
    { s \in [1..Cardinality(S) -> S] : \A a, b \in DOMAIN s : a # b => s[a] # s[b] }

---------------------------------------------------------------------------
(* powerset *)

\* list(s): the elements of the set s in its iteration order
ListOf(s) == SelectSeq(order, LAMBDA x : x \in s)

\* itertools.combinations(l, r), each tuple as a set
RECURSIVE Combinations(_, _)
Combinations(l, r) ==
    IF r = 0 THEN << {} >>
    ELSE IF Len(l) < r THEN << >>
    ELSE LET with == Combinations(Tail(l), r - 1)
         IN  [a \in 1..Len(with) |-> {Head(l)} \cup with[a]]
             \o Combinations(Tail(l), r)

RECURSIVE Chain(_, _)
Chain(l, r) ==
    IF r > Len(l) THEN << >> ELSE Combinations(l, r) \o Chain(l, r + 1)

\* powerset(s): the list of all subsets of s
powerset(s) == Chain(ListOf(s), 0)

---------------------------------------------------------------------------
(* joint_probability *)

\* joint_probability without the trait factors
joint_probability_no_trait(ppl, og, tg, ht) ==
    LET gm == create_gene_matrix
        genes(person) == IF person \in og THEN 1
                         ELSE IF person \in tg THEN 2
                         ELSE 0
        gene_prob(person) ==
            IF ppl[person].mother = None
            THEN PROBS.gene[genes(person)]
            ELSE gm[genes(person)][genes(ppl[person].father)]
                                  [genes(ppl[person].mother)]
        gene_unit(person) ==
            IF ppl[person].mother = None THEN Hundred ELSE MatrixUnit
        RECURSIVE final_prob(_)
        final_prob(k) ==
            IF k = 0 THEN Rat(Big(1), Big(1))
            ELSE LET r == final_prob(k - 1)
                 IN  Rat(BigMul(r.num, gene_prob(k)), BigMul(r.den, gene_unit(k)))
    IN  final_prob(Cardinality(DOMAIN ppl))

\* joint_probability(people, one_gene, two_genes, have_trait).  The factors
\* are multiplied in the order of the dict; the denominator of the result
\* is the product of the units of the factors.
joint_probability(ppl, og, tg, ht) ==
    LET gm == create_gene_matrix
        ref == [person \in DOMAIN ppl |->
                   [genes |-> IF person \in og THEN 1
                              ELSE IF person \in tg THEN 2
                              ELSE 0,
                    trait |-> person \in ht]]
        gene_prob(person) ==
            IF ppl[person].mother = None
            THEN PROBS.gene[ref[person].genes]
            ELSE gm[ref[person].genes][ref[ppl[person].father].genes]
                                      [ref[ppl[person].mother].genes]
        gene_unit(person) ==
            IF ppl[person].mother = None THEN Hundred ELSE MatrixUnit
        trait_prob(person) == PROBS.trait[ref[person].genes][ref[person].trait]
        RECURSIVE final_prob(_)
        final_prob(k) ==
            IF k = 0 THEN Rat(Big(1), Big(1))
            ELSE LET r == final_prob(k - 1)
                 IN  Rat(BigMul(BigMul(r.num, gene_prob(k)), trait_prob(k)),
                         BigMul(BigMul(r.den, gene_unit(k)), Hundred))
    IN  final_prob(Cardinality(DOMAIN ppl))

---------------------------------------------------------------------------
(* update *)

\* update with = for +=
update_assign(probs, og, tg, ht, pp) ==
    [person \in DOMAIN probs |->
        LET g == IF person \in og THEN 1
                 ELSE IF person \in tg THEN 2
                 ELSE 0
            t == person \in ht
        IN  [gene  |-> [probs[person].gene EXCEPT ![g] = pp],
             trait |-> [probs[person].trait EXCEPT ![t] = pp]]]

\* update that tests two_genes before one_gene
update_two_first(probs, og, tg, ht, pp) ==
    [person \in DOMAIN probs |->
        LET g == IF person \in tg THEN 2
                 ELSE IF person \in og THEN 1
                 ELSE 0
            t == person \in ht
        IN  [gene  |-> [probs[person].gene EXCEPT ![g] = RatAdd(@, pp)],
             trait |-> [probs[person].trait EXCEPT ![t] = RatAdd(@, pp)]]]

\* update with the two trait buckets exchanged
update_trait_swapped(probs, og, tg, ht, pp) ==
    [person \in DOMAIN probs |->
        LET g == IF person \in og THEN 1
                 ELSE IF person \in tg THEN 2
                 ELSE 0
            t == person \notin ht
        IN  [gene  |-> [probs[person].gene EXCEPT ![g] = RatAdd(@, pp)],
             trait |-> [probs[person].trait EXCEPT ![t] = RatAdd(@, pp)]]]

\* update(probabilities, one_gene, two_genes, have_trait, p)
update(probs, og, tg, ht, pp) ==
    [person \in DOMAIN probs |->
        LET g == IF person \in og THEN 1
                 ELSE IF person \in tg THEN 2
                 ELSE 0
            t == person \in ht
        IN  [gene  |-> [probs[person].gene EXCEPT ![g] = RatAdd(@, pp)],
             trait |-> [probs[person].trait EXCEPT ![t] = RatAdd(@, pp)]]]

---------------------------------------------------------------------------
(* normalize *)

gene_total(probs, person) ==
    RatAdd(RatAdd(probs[person].gene[0], probs[person].gene[1]),
           probs[person].gene[2])

trait_total(probs, person) ==
    RatAdd(probs[person].trait[TRUE], probs[person].trait[FALSE])

\* normalize that rescales the gene distributions only
normalize_gene_only(probs, np) ==
    [table |->
        [person \in DOMAIN probs |->
            [gene  |-> [g \in 0..2 |->
                           RatDiv(probs[person].gene[g], gene_total(probs, person))],
             trait |-> probs[person].trait]],
     outcome |-> "done"]

\* normalize(probabilities).  1 / total raises ZeroDivisionError for a zero
\* Python number and gives inf (with a warning) for a zero numpy.float64;
\* the people before the one that raises are already normalized in place.
normalize(probs, np) ==
    LET n == Cardinality(DOMAIN probs)
        raises(person) ==
            /\ ~np
            /\ \/ gene_total(probs, person).num = Zero
               \/ trait_total(probs, person).num = Zero
        stop == IF \E person \in 1..n : raises(person)
                THEN CHOOSE person \in 1..n :
                        /\ raises(person)
                        /\ \A q \in 1..(person - 1) : ~raises(q)
                ELSE n + 1
    IN  [table |->
            [person \in DOMAIN probs |->
                IF person < stop
                THEN [gene  |-> [g \in 0..2 |->
                                    RatDiv(probs[person].gene[g],
                                           gene_total(probs, person))],
                      trait |-> [t \in BOOLEAN |->
                                    RatDiv(probs[person].trait[t],
                                           trait_total(probs, person))]]
                ELSE probs[person]],
         outcome |-> IF stop <= n THEN "ZeroDivisionError" ELSE "done"]

---------------------------------------------------------------------------
(* main *)

names == DOMAIN people

\* the table of zeros main starts from, over the denominator d
ZeroTable(ppl, d) ==
    [person \in DOMAIN ppl |->
        [gene  |-> [g \in 0..2 |-> Rat(Zero, d)],
         trait |-> [t \in BOOLEAN |-> Rat(Zero, d)]]]

\* the denominator of every joint probability over the person table ppl
Unit(ppl) == joint_probability(ppl, {}, {}, {}).den

\* the evidence check that looks at people known to have the trait only
fails_evidence_true_only(ppl, ht) ==
    \E person \in DOMAIN ppl :
        /\ ppl[person].trait = "True"
        /\ person \notin ht

fails_evidence(ppl, ht) ==
    \E person \in DOMAIN ppl :
        /\ ppl[person].trait # "None"
        /\ ppl[person].trait # Str(person \in ht)

Call(og, tg, ht, pp) ==
    [one_gene |-> og, two_genes |-> tg, have_trait |-> ht, p |-> pp]

Init ==
    /\ \E n \in 0..MaxPeople :
          /\ people \in Tables(n, TraitVals)
          /\ order \in Perms(1..n)
    /\ probabilities = ZeroTable(people, Unit(people))
    /\ have_trait = {}
    /\ one_gene = {}
    /\ two_genes = {}
    /\ it_trait = 1
    /\ it_one = 1
    /\ it_two = 1
    /\ p = Rat(Zero, Big(1))
    /\ gene_matrix = << >>
    /\ npfloat = FALSE
    /\ pc = "have_trait"
    /\ calls = EmptyBag

\* for have_trait in powerset(names): a set that violates known information
RejectHaveTrait ==
    /\ pc = "have_trait"
    /\ it_trait <= Len(powerset(names))
    /\ fails_evidence(people, powerset(names)[it_trait])
    /\ have_trait' = powerset(names)[it_trait]
    /\ it_trait' = it_trait + 1
    /\ UNCHANGED <<people, order, probabilities, one_gene, two_genes,
                   it_one, it_two, p, gene_matrix, npfloat, pc, calls>>

\* for have_trait in powerset(names): a set that agrees with it
AcceptHaveTrait ==
    /\ pc = "have_trait"
    /\ it_trait <= Len(powerset(names))
    /\ ~fails_evidence(people, powerset(names)[it_trait])
    /\ have_trait' = powerset(names)[it_trait]
    /\ it_trait' = it_trait + 1
    /\ it_one' = 1
    /\ pc' = "one_gene"
    /\ UNCHANGED <<people, order, probabilities, one_gene, two_genes,
                   it_two, p, gene_matrix, npfloat, calls>>

ExitHaveTrait ==
    /\ pc = "have_trait"
    /\ it_trait > Len(powerset(names))
    /\ pc' = "normalize"
    /\ UNCHANGED <<people, order, probabilities, have_trait, one_gene,
                   two_genes, it_trait, it_one, it_two, p, gene_matrix,
                   npfloat, calls>>

\* for one_gene in powerset(names)
NextOneGene ==
    /\ pc = "one_gene"
    /\ it_one <= Len(powerset(names))
    /\ one_gene' = powerset(names)[it_one]
    /\ it_one' = it_one + 1
    /\ it_two' = 1
    /\ pc' = "two_genes"
    /\ UNCHANGED <<people, order, probabilities, have_trait, two_genes,
                   it_trait, p, gene_matrix, npfloat, calls>>

ExitOneGene ==
    /\ pc = "one_gene"
    /\ it_one > Len(powerset(names))
    /\ pc' = "have_trait"
    /\ UNCHANGED <<people, order, probabilities, have_trait, one_gene,
                   two_genes, it_trait, it_one, it_two, p, gene_matrix,
                   npfloat, calls>>

\* for two_genes in powerset(names - one_gene)
NextTwoGenes ==
    /\ pc = "two_genes"
    /\ it_two <= Len(powerset(names \ one_gene))
    /\ two_genes' = powerset(names \ one_gene)[it_two]
    /\ it_two' = it_two + 1
    /\ pc' = "joint"
    /\ UNCHANGED <<people, order, probabilities, have_trait, one_gene,
                   it_trait, it_one, p, gene_matrix, npfloat, calls>>

ExitTwoGenes ==
    /\ pc = "two_genes"
    /\ it_two > Len(powerset(names \ one_gene))
    /\ pc' = "one_gene"
    /\ UNCHANGED <<people, order, probabilities, have_trait, one_gene,
                   two_genes, it_trait, it_one, it_two, p, gene_matrix,
                   npfloat, calls>>

\* p = joint_probability(people, one_gene, two_genes, have_trait)
JointProbability ==
    /\ pc = "joint"
    /\ gene_matrix' = create_gene_matrix
    /\ p' = joint_probability(people, one_gene, two_genes, have_trait)
    /\ pc' = "update"
    /\ UNCHANGED <<people, order, probabilities, have_trait, one_gene,
                   two_genes, it_trait, it_one, it_two, npfloat, calls>>

\* update(probabilities, one_gene, two_genes, have_trait, p); a product
\* that has a gene_matrix entry among its factors is a numpy.float64
Update ==
    /\ pc = "update"
    /\ probabilities' = update(probabilities, one_gene, two_genes, have_trait, p)
    /\ calls' = calls (+) SetToBag({Call(one_gene, two_genes, have_trait, p)})
    /\ npfloat' = (npfloat \/ \E person \in names : people[person].mother # None)
    /\ pc' = "two_genes"
    /\ UNCHANGED <<people, order, have_trait, one_gene, two_genes, it_trait,
                   it_one, it_two, p, gene_matrix>>

\* normalize(probabilities)
Normalize ==
    /\ pc = "normalize"
    /\ LET r == normalize(probabilities, npfloat)
       IN  /\ probabilities' = r.table
           /\ pc' = r.outcome
    /\ UNCHANGED <<people, order, have_trait, one_gene, two_genes, it_trait,
                   it_one, it_two, p, gene_matrix, npfloat, calls>>

Next ==
    \/ RejectHaveTrait
    \/ AcceptHaveTrait
    \/ ExitHaveTrait
    \/ NextOneGene
    \/ ExitOneGene
    \/ NextTwoGenes
    \/ ExitTwoGenes
    \/ JointProbability
    \/ Update
    \/ Normalize

Spec == Init /\ [][Next]_vars

---------------------------------------------------------------------------
(* joint_probability called on its own *)

InitJoint ==
    /\ \E n \in 0..MaxJointPeople : people \in Tables(n, {"None"})
    /\ order = [x \in 1..Cardinality(DOMAIN people) |-> x]
    /\ probabilities = ZeroTable(people, Unit(people))
    /\ have_trait \in SUBSET (DOMAIN people)
    /\ one_gene \in SUBSET (DOMAIN people)
    /\ two_genes \in SUBSET (DOMAIN people)
    /\ it_trait = 1
    /\ it_one = 1
    /\ it_two = 1
    /\ p = Rat(Zero, Big(1))
    /\ gene_matrix = << >>
    /\ npfloat = FALSE
    /\ pc = "joint"
    /\ calls = EmptyBag

SpecJoint == InitJoint /\ [][JointProbability]_vars

---------------------------------------------------------------------------
(* update called on its own, any number of times up to MaxCalls, with any  *)
(* arguments, on a table that starts all-zero                              *)

InitUpdate ==
    /\ \E n \in 0..MaxUpdatePeople : people = Founders(n)
    /\ order = [x \in 1..Cardinality(DOMAIN people) |-> x]
    /\ probabilities = ZeroTable(people, Big(1))
    /\ have_trait = {}
    /\ one_gene = {}
    /\ two_genes = {}
    /\ it_trait = 1
    /\ it_one = 1
    /\ it_two = 1
    /\ p = Rat(Zero, Big(1))
    /\ gene_matrix = << >>
    /\ npfloat = FALSE
    /\ pc = "call_update"
    /\ calls = EmptyBag

UpdateCall ==
    /\ pc = "call_update"
    /\ BagCardinality(calls) < MaxCalls
    /\ \E og \in SUBSET names, tg \in SUBSET names, ht \in SUBSET names, w \in PVals :
          LET pp == Rat(Big(w), Big(1))
          IN  /\ probabilities' = update(probabilities, og, tg, ht, pp)
              /\ calls' = calls (+) SetToBag({Call(og, tg, ht, pp)})
    /\ UNCHANGED <<people, order, have_trait, one_gene, two_genes, it_trait,
                   it_one, it_two, p, gene_matrix, npfloat, pc>>

SpecUpdate == InitUpdate /\ [][UpdateCall]_vars

---------------------------------------------------------------------------
(* normalize called on its own, on any table of small weights *)

Weights == { Rat(Big(w), Big(1)) : w \in WVals }

InitNormalize ==
    /\ \E n \in 0..MaxPeople : people = Founders(n)
    /\ order = [x \in 1..Cardinality(DOMAIN people) |-> x]
    /\ probabilities \in [DOMAIN people ->
                            [gene : [0..2 -> Weights], trait : [BOOLEAN -> Weights]]]
    /\ have_trait = {}
    /\ one_gene = {}
    /\ two_genes = {}
    /\ it_trait = 1
    /\ it_one = 1
    /\ it_two = 1
    /\ p = Rat(Zero, Big(1))
    /\ gene_matrix = << >>
    /\ npfloat \in BOOLEAN
    /\ pc = "normalize"
    /\ calls = EmptyBag

SpecNormalize == InitNormalize /\ [][Normalize]_vars

---------------------------------------------------------------------------
(* Comparison and rounding of exact numbers *)

RECURSIVE BigLess(_, _)
BigLess(a, b) ==
    IF Len(a) # Len(b) THEN Len(a) < Len(b)
    ELSE IF a = <<>> THEN FALSE
    ELSE LET n == Len(a)
         IN  IF a[n] # b[n] THEN a[n] < b[n]
             ELSE BigLess(SubSeq(a, 1, n - 1), SubSeq(b, 1, n - 1))

BigLeq(a, b) == a = b \/ BigLess(a, b)

\* f"{x:.4f}" prints r / 10000, for r below 10000:
\* (2r - 1) * den <= 20000 * num < (2r + 1) * den
Rounds4(x, r) ==
    /\ x.den # Zero
    /\ BigLeq(BigMul(x.den, 2 * r - 1), BigMul(x.num, 20000))
    /\ BigLess(BigMul(x.num, 20000), BigMul(x.den, 2 * r + 1))

---------------------------------------------------------------------------
(* Claims *)

\* a person with no parents is the whole pedigree
SingleFounder == DOMAIN people = {1}

\* C1: after main's enumerate / joint_probability / update / normalize
\* pipeline over a valid person table with any trait evidence, every
\* person's three gene buckets sum to 1 and every person's two trait buckets
\* sum to 1; no accumulated gene or trait sum is zero when normalize runs,
\* so normalize never raises.
C1_DistributionsSumToOne ==
    /\ pc # "ZeroDivisionError"
    /\ pc = "normalize" =>
          \A person \in names :
              /\ gene_total(probabilities, person).num # Zero
              /\ trait_total(probabilities, person).num # Zero
    /\ pc = "done" =>
          \A person \in names :
              /\ RatIsOne(gene_total(probabilities, person))
              /\ RatIsOne(trait_total(probabilities, person))

\* a finished run over a child with a known trait and a parent without it
C1_Witness ==
    /\ pc = "done"
    /\ \E person \in names :
          /\ people[person].mother # None
          /\ people[person].trait = "True"
          /\ people[people[person].mother].trait = "False"

\* the transmission probability q of a parent with g copies, in hundredths
q(g) == IF g = 0 THEN 1 ELSE IF g = 1 THEN 50 ELSE 99

\* the derived entry for child c and parents pA, pB, in 10000ths
Derived(c, pA, pB) ==
    IF c = 2 THEN q(pA) * q(pB)
    ELSE IF c = 0 THEN (100 - q(pA)) * (100 - q(pB))
    ELSE q(pA) * (100 - q(pB)) + (100 - q(pA)) * q(pB)

\* C2: every entry gene_matrix[c][pA][pB] built by create_gene_matrix equals
\* the derived value q(pA)*q(pB) for c = 2, (1-q(pA))*(1-q(pB)) for c = 0,
\* q(pA)*(1-q(pB)) + (1-q(pA))*q(pB) for c = 1, with q = m, 0.5, 1 - m.
C2_MatrixIsDerived ==
    gene_matrix # << >> =>
        \A c \in 0..2, pA \in 0..2, pB \in 0..2 :
            gene_matrix[c][pA][pB] = 4 * Derived(c, pA, pB)

\* C3: for every pair of parent gene counts the three entries of the gene
\* matrix over the child's gene count sum to 1.
C3_MatrixRowsSumToOne ==
    gene_matrix # << >> =>
        \A pA \in 0..2, pB \in 0..2 :
            gene_matrix[0][pA][pB] + gene_matrix[1][pA][pB] + gene_matrix[2][pA][pB]
                = MatrixUnit

\* the gene count and trait the claim gives a person under an assignment
GenesOf(person, og, tg) ==
    IF person \in og THEN 1 ELSE IF person \in tg THEN 2 ELSE 0

\* the product of the claimed factors of the first k people, as a numerator
\* over the denominator of joint_probability: PROBS['gene'] for a founder,
\* the derived Transition entry for a child, times PROBS['trait']
RECURSIVE ClaimedProduct(_)
ClaimedProduct(k) ==
    IF k = 0 THEN Big(1)
    ELSE LET g == GenesOf(k, one_gene, two_genes)
             gene_factor ==
                 IF people[k].mother = None /\ people[k].father = None
                 THEN PROBS.gene[g]
                 ELSE 4 * Derived(g, GenesOf(people[k].father, one_gene, two_genes),
                                     GenesOf(people[k].mother, one_gene, two_genes))
             trait_factor == PROBS.trait[g][(k \in have_trait)]
         IN  BigMul(BigMul(ClaimedProduct(k - 1), gene_factor), trait_factor)

\* C4: joint_probability returns the product over all people of a gene
\* factor (PROBS['gene'][own genes] without parents, otherwise
\* Transition[own genes][father's genes][mother's genes]) and the trait
\* factor PROBS['trait'][own genes][own trait].
C4_JointIsProductOfFactors ==
    pc = "update" =>
        /\ p.num = ClaimedProduct(Cardinality(names))
        /\ p.den = Unit(people)

\* have_trait agrees with every person's known trait
Agrees(ht) ==
    \A person \in names :
        /\ people[person].trait = "True" => person \in ht
        /\ people[person].trait = "False" => person \notin ht

\* C5: during one run of main, update is invoked exactly once for each
\* triple (have_trait, one_gene, two_genes) with have_trait agreeing with
\* every known trait and one_gene, two_genes disjoint subsets of the names,
\* and for no other triple.
C5_EachConfigurationOnce ==
    pc \in {"normalize", "done"} =>
        /\ \A c \in BagToSet(calls) :
              /\ CopiesIn(c, calls) = 1
              /\ c.have_trait \subseteq names
              /\ c.one_gene \subseteq names
              /\ c.two_genes \subseteq names
              /\ Agrees(c.have_trait)
              /\ c.one_gene \cap c.two_genes = {}
        /\ \A ht \in SUBSET names, og \in SUBSET names, tg \in SUBSET names :
              Cardinality({ c \in BagToSet(calls) :
                              /\ c.have_trait = ht
                              /\ c.one_gene = og
                              /\ c.two_genes = tg })
                  = IF Agrees(ht) /\ og \cap tg = {} THEN 1 ELSE 0

\* a finished run over two people in which some subset was rejected
C5_Witness ==
    /\ pc = "done"
    /\ Cardinality(names) = 2
    /\ \E person \in names : people[person].trait # "None"
    /\ BagCardinality(calls) > 1

\* the call that a step has added to the history
NewCall(c) == calls' = calls (+) SetToBag({c})

\* C6: one call of update adds p, for every person of the table, to exactly
\* one gene bucket (1 if the person is in one_gene, else 2 if in two_genes,
\* else 0) and to exactly one trait bucket (True if in have_trait, else
\* False), and leaves every other bucket of every person unchanged.
C6_UpdateAddsToOneBucketEach ==
    [][calls' # calls =>
        \E c \in BagToSet(calls') :
            /\ NewCall(c)
            /\ DOMAIN probabilities' = DOMAIN probabilities
            /\ \A person \in DOMAIN probabilities :
                  /\ \A g \in 0..2 :
                        probabilities'[person].gene[g] =
                            IF g = GenesOf(person, c.one_gene, c.two_genes)
                            THEN RatAdd(probabilities[person].gene[g], c.p)
                            ELSE probabilities[person].gene[g]
                  /\ \A t \in BOOLEAN :
                        probabilities'[person].trait[t] =
                            IF t = (person \in c.have_trait)
                            THEN RatAdd(probabilities[person].trait[t], c.p)
                            ELSE probabilities[person].trait[t]]_vars

\* update has been called with a person in both one_gene and two_genes
C6_Witness ==
    \E c \in BagToSet(calls) :
        /\ c.one_gene \cap c.two_genes # {}
        /\ \E person \in c.one_gene : probabilities[person].gene[1].num # Zero

\* C7: a table that reaches normalize with a person whose gene-bucket sum
\* or trait-bucket sum is zero is reported as a distinct "no consistent
\* configuration" condition, not as a division by zero or as nan values.
C7_ZeroSumIsReported ==
    [][(/\ pc = "normalize"
        /\ \E person \in DOMAIN probabilities :
              \/ gene_total(probabilities, person).num = Zero
              \/ trait_total(probabilities, person).num = Zero)
       => pc' = "no consistent configuration"]_vars

\* x = a / b for small a and b
RatIs(x, a, b) == x.den # Zero /\ BigMul(x.num, b) = BigMul(x.den, a)

\* C8: for a single person with no parents the posterior gene distribution
\* is, with observed trait = true, {0.96*0.01, 0.03*0.56, 0.01*0.65}
\* renormalized to sum to 1, and with no evidence the prior
\* {0: 0.96, 1: 0.03, 2: 0.01} exactly.
C8_SingleFounderGenePosterior ==
    (pc = "done" /\ SingleFounder /\ people[1].mother = None) =>
        /\ people[1].trait = "True" =>
              /\ RatIs(probabilities[1].gene[0], 96 * 1, 96 * 1 + 3 * 56 + 1 * 65)
              /\ RatIs(probabilities[1].gene[1], 3 * 56, 96 * 1 + 3 * 56 + 1 * 65)
              /\ RatIs(probabilities[1].gene[2], 1 * 65, 96 * 1 + 3 * 56 + 1 * 65)
        /\ people[1].trait = "None" =>
              /\ RatIs(probabilities[1].gene[0], 96, 100)
              /\ RatIs(probabilities[1].gene[1], 3, 100)
              /\ RatIs(probabilities[1].gene[2], 1, 100)

\* a finished run over one founder observed to have the trait
C8_Witness ==
    pc = "done" /\ SingleFounder /\ people[1].trait = "True"

\* the prior-weighted mixture 0.96*0.01 + 0.03*0.56 + 0.01*0.65, in 10000ths
Mixture == 96 * 1 + 3 * 56 + 1 * 65

\* C9 as stated: for a single person with no parents and no evidence,
\* P(trait = true) is the mixture 0.96*0.01 + 0.03*0.56 + 0.01*0.65 and
\* that value is 0.0266 when rounded to four decimals.
C9_MixtureRoundsTo0266 ==
    (pc = "done" /\ SingleFounder /\ people[1].trait = "None") =>
        /\ RatIs(probabilities[1].trait[TRUE], Mixture, 10000)
        /\ Rounds4(probabilities[1].trait[TRUE], 266)

\* C9 amended: for a single person with no parents and no evidence,
\* P(trait = true) is the mixture 0.96*0.01 + 0.03*0.56 + 0.01*0.65, which
\* is 0.0329 (exactly, and when rounded to four decimals).
C9_MixtureIs0329 ==
    (pc = "done" /\ SingleFounder /\ people[1].trait = "None") =>
        /\ RatIs(probabilities[1].trait[TRUE], Mixture, 10000)
        /\ RatIs(probabilities[1].trait[TRUE], 329, 10000)
        /\ Rounds4(probabilities[1].trait[TRUE], 329)

\* a finished run over one founder without evidence
C9_Witness ==
    pc = "done" /\ SingleFounder /\ people[1].trait = "None"

\* the calls of a bag applied to a table one after another, in the order
\* CHOOSE fixes
RECURSIVE ApplyAll(_, _)
ApplyAll(table, bag) ==
    IF BagToSet(bag) = {} THEN table
    ELSE LET c == CHOOSE c \in BagToSet(bag) : TRUE
         IN  ApplyAll(update(table, c.one_gene, c.two_genes, c.have_trait, c.p),
                      bag (-) SetToBag({c}))

====
